---- MODULE Spec2Model ----
(***************************************************************************)
(* A model of fmriprepgr/reports.py: parse_report (the extraction of one   *)
(* row per figure node of a subject report), the pagination of one         *)
(* report-type group, and make_report (validation of the image-change      *)
(* options, creation of the group tree, linking or copying of every        *)
(* subject's figures, image changes and consolidated reports).             *)
(*                                                                         *)
(* Python values that can be missing (None, NaN, an absent entity) are     *)
(* sequences of length 0 or 1: <<>> is the missing value and <<v>> is v.   *)
(***************************************************************************)
EXTENDS Integers, Sequences, FiniteSets, TLC

VARIABLES
    \* parse_report, lines 29-66
    parse_pc,            \* "idle" | "loop"
    doc,                 \* the parsed document: the children of its root
    fd,                  \* index into file_divs of the figure node handled next
    prev_run_title,      \* line 37
    report_elements,     \* line 35
    \* pagination of one report-type group, lines 332-360
    page_pc,             \* "idle" | "rtdf" | "written"
    rtdf,                \* the group's rows, in corpus order
    page_size,           \* reports_per_page
    chunk_files,         \* the (chunk, rows) pairs of lines 357-360
    \* make_report, lines 167-368
    pc,                  \* "validate" | "setup" | "loop" | "types" | "done" | "error"
    err,                 \* the exception that ended the run
    flip_images, drop_background, drop_foreground,
    image_changes,
    path_to_figures,
    reports_per_page,
    report_paths,        \* line 285: the reports found, in sorted path order
    fig_dirs,            \* subjects whose original figures directory exists
    entry0,              \* group/sub-<s>/figures when make_report starts
    entry,               \* group/sub-<s>/figures now
    group_dir,           \* group/ exists
    dataset_description, \* group/dataset_description.json: "absent" | "written"
    subj_dirs,           \* subjects s with a directory group/sub-<s>
    created,             \* subjects whose figures entry this run created
    fs_ops,              \* the filesystem operations of this run, in order
    i,                   \* index into report_paths of the report handled next
    reports,             \* line 286
    corpus,              \* line 328
    todo,                \* report types line 331 still has to visit
    transforms,          \* the image changes applied, in order
    written              \* the consolidated files written

parse_vars == <<parse_pc, doc, fd, prev_run_title, report_elements>>
page_vars == <<page_pc, rtdf, page_size, chunk_files>>
input_vars == <<flip_images, drop_background, drop_foreground, path_to_figures,
                reports_per_page, report_paths, fig_dirs, entry0>>
run_vars == <<pc, err, image_changes, entry, group_dir, dataset_description,
              subj_dirs, created, fs_ops, i, reports, corpus, todo, transforms,
              written>>
vars == <<parse_vars, page_vars, input_vars, run_vars>>

----------------------------------------------------------------------------
(* Bounds *)

\* nodes of a document, a div counting as one node more than its children
MaxNodes == 5
\* rows of a report-type group
MaxGroupRows == 120
\* largest page size
MaxPerPage == 50
\* reports found by the glob of line 285
MaxReports == 2
\* figure nodes of one report
MaxFigs == 2

----------------------------------------------------------------------------
(* Python's missing values *)

None == <<>>
NaN == <<>>
Some(v) == <<v>>

----------------------------------------------------------------------------
(* The document tree read by parse_report.  A node is [tag, kids]; its     *)
(* class attribute follows from its tag; its text is its position.         *)

LeafTags == {"object", "h3", "p", "span"}

Leaf(t) == [tag |-> t, kids |-> <<>>]

RECURSIVE KidSeqs(_)
KidSeqs(n) ==
    IF n = 0 THEN {<<>>}
    ELSE {Append(s, Leaf(t)) : s \in KidSeqs(n - 1), t \in LeafTags}

NodesOfSize(n) ==
    (IF n = 1 THEN {Leaf(t) : t \in LeafTags} ELSE {})
        \cup {[tag |-> "div", kids |-> ks] : ks \in KidSeqs(n - 1)}

RECURSIVE DocsOfSize(_)
DocsOfSize(n) ==
    IF n = 0 THEN {<<>>}
    ELSE UNION {{<<e>> \o d : e \in NodesOfSize(s), d \in DocsOfSize(n - s)} :
                s \in 1..n}

Docs == UNION {DocsOfSize(n) : n \in 0..MaxNodes}

\* the class attribute as bs4's html.parser gives it: a list of tokens
\* (class is a multi-valued attribute), absent on a div
has_attr_class(node) == node.tag # "div"

ClassTokens(node) ==
    CASE node.tag = "object" -> <<"svg-reportlet">>
      [] node.tag = "h3" -> <<"run-title">>
      [] node.tag = "p" -> <<"elem-caption">>
      [] node.tag = "span" -> <<"elem-caption">>
      [] OTHER -> <<>>

PyList(tokens) == [py |-> "list", v |-> tokens]
PyStr(s) == [py |-> "str", v |-> Some(s)]
\* Python's ==: a list never equals a str
PyEq(a, b) == a.py = b.py /\ a.v = b.v

\* prev.get('class', '')
get_class(node) == IF has_attr_class(node) THEN PyList(ClassTokens(node)) ELSE PyStr("")

\* every node the model holds is a Tag (no NavigableString)
isinstance_Tag(node) == node.tag \in LeafTags \cup {"div"}

RECURSIVE PathsFrom(_, _)
PathsFrom(d, n) ==
    IF n > Len(d) THEN <<>>
    ELSE <<<<n>>>> \o [j \in 1..Len(d[n].kids) |-> <<n, j>>] \o PathsFrom(d, n + 1)

\* the positions of all nodes, in document order
NodePaths(d) == PathsFrom(d, 1)

NodeAt(d, p) == IF Len(p) = 1 THEN d[p[1]] ELSE d[p[1]].kids[p[2]]

\* node.text
TextOf(p) == Some(10 * p[1] + (IF Len(p) = 2 THEN p[2] ELSE 0))

\* fd.parent: <<>> is the document itself
Parent(p) == SubSeq(p, 1, Len(p) - 1)

IsUnder(p, anc) == Len(p) > Len(anc) /\ SubSeq(p, 1, Len(anc)) = anc

HasToken(tokens, c) == \E n \in 1..Len(tokens) : tokens[n] = c

\* parent.findAll(name, attrs={'class': cls}); name "" matches every tag
findAll(d, anc, name, cls) ==
    SelectSeq(NodePaths(d),
              LAMBDA p : /\ IsUnder(p, anc)
                         /\ (name = "" \/ NodeAt(d, p).tag = name)
                         /\ HasToken(ClassTokens(NodeAt(d, p)), cls))

\* line 32
file_divs(d) == findAll(d, <<>>, "", "svg-reportlet")

\* fd.previous_siblings: nearest first
previous_siblings(p) ==
    [n \in 1..(p[Len(p)] - 1) |-> Parent(p) \o <<p[Len(p)] - n>>]

\* lines 94-99; ok = FALSE is the ValueError
unique_retrieval(element_list) ==
    IF Len(element_list) > 1 THEN [ok |-> FALSE, text |-> NaN]
    ELSE IF Len(element_list) = 0 THEN [ok |-> FALSE, text |-> NaN]
    ELSE [ok |-> TRUE, text |-> TextOf(element_list[1])]

\* line 63
SiblingMatches(d, prev) ==
    /\ isinstance_Tag(NodeAt(d, prev))
    /\ has_attr_class(NodeAt(d, prev))
    /\ PyEq(get_class(NodeAt(d, prev)), PyStr("elem-caption"))

\* lines 62-64: the loop has no break, every match assigns
RECURSIVE ScanSiblings(_, _, _, _)
ScanSiblings(d, sibs, n, caption) ==
    IF n > Len(sibs) THEN caption
    ELSE ScanSiblings(d, sibs, n + 1,
                      IF SiblingMatches(d, sibs[n]) THEN TextOf(sibs[n]) ELSE caption)

\* lines 48-54
RunTitleOf(d, p, prev) ==
    LET r == unique_retrieval(findAll(d, Parent(p), "h3", "run-title"))
    IN IF r.ok THEN r.text ELSE prev

\* lines 58-64; a row without the key reads NaN in the DataFrame
ElemCaptionOf(d, p) ==
    LET r == unique_retrieval(findAll(d, Parent(p), "p", "elem-caption"))
    IN IF r.ok THEN r.text ELSE ScanSiblings(d, previous_siblings(p), 1, NaN)

\* line 37
CarriedRunTitle == prev_run_title
InitialRunTitle == NaN

ParseInit ==
    /\ parse_pc = "idle"
    /\ doc = <<>>
    /\ fd = 0
    /\ prev_run_title = NaN
    /\ report_elements = <<>>

\* lines 29-37
ParseBegin ==
    /\ parse_pc = "idle"
    /\ \E d \in Docs : doc' = d
    /\ fd' = 1
    /\ prev_run_title' = InitialRunTitle
    /\ report_elements' = <<>>
    /\ parse_pc' = "loop"
    /\ UNCHANGED <<page_vars, input_vars, run_vars>>

\* lines 38-66, one figure node
ParseFigure ==
    /\ parse_pc = "loop"
    /\ fd <= Len(file_divs(doc))
    /\ LET p == file_divs(doc)[fd]
           row == [path |-> p,
                   run_title |-> RunTitleOf(doc, p, prev_run_title),
                   elem_caption |-> ElemCaptionOf(doc, p)]
       IN /\ report_elements' = Append(report_elements, row)
          /\ prev_run_title' = row.run_title
    /\ fd' = fd + 1
    /\ UNCHANGED <<parse_pc, doc>>
    /\ UNCHANGED <<page_vars, input_vars, run_vars>>

\* line 75: the rows go to the caller; prev_run_title is a dead local
ParseReturn ==
    /\ parse_pc = "loop"
    /\ fd > Len(file_divs(doc))
    /\ parse_pc' = "idle"
    /\ doc' = <<>>
    /\ fd' = 0
    /\ report_elements' = <<>>
    /\ UNCHANGED prev_run_title
    /\ UNCHANGED <<page_vars, input_vars, run_vars>>

----------------------------------------------------------------------------
(* Pagination of one report-type group, lines 332-360 *)

\* lines 332-333: idx is the 0-based position in the group
WithIdx(rows) == [n \in 1..Len(rows) |-> [idx |-> n - 1, row |-> rows[n]]]

\* lines 353-356
ChunkOfShifted(idx, per_page) ==
    IF per_page = None THEN 0 ELSE (idx + 1) \div per_page[1]
ChunkOf(idx, per_page) ==
    IF per_page = None THEN 0 ELSE idx \div per_page[1]

WithChunk(df, per_page) ==
    [n \in 1..Len(df) |->
        [idx |-> df[n].idx, row |-> df[n].row, chunk |-> ChunkOf(df[n].idx, per_page)]]

\* line 360: the chunk's rows are re-indexed from 0
Reindex(cdf) == [n \in 1..Len(cdf) |-> [idx |-> n - 1, row |-> cdf[n].row]]

RECURSIVE Digits(_)
Digits(n) == IF n < 10 THEN <<n>> ELSE Append(Digits(n \div 10), n % 10)

\* f'{chunk:03d}': at least three digits, padded with zeros
Format03d(n) ==
    LET ds == Digits(n)
    IN [k \in 1..(3 - Len(ds)) |-> 0] \o ds

\* lines 357-360: one file per chunk value, groupby keeping the row order
ChunkFiles(report_type, rows, per_page) ==
    LET df == WithChunk(WithIdx(rows), per_page)
    IN {[report_type |-> report_type,
         chunk |-> c,
         name |-> Format03d(c),
         rows |-> Reindex(SelectSeq(df, LAMBDA r : r.chunk = c))] :
        c \in {df[n].chunk : n \in 1..Len(df)}}

PageSizes == {None} \cup {Some(p) : p \in 1..MaxPerPage}

PageIdle ==
    /\ page_pc = "idle"
    /\ rtdf = <<>>
    /\ page_size = None
    /\ chunk_files = {}

\* a group of n rows, each named by its rank in the corpus order
PageInit ==
    /\ page_pc = "rtdf"
    /\ rtdf \in {[k \in 1..n |-> k] : n \in 1..MaxGroupRows}
    /\ page_size \in PageSizes
    /\ chunk_files = {}

Paginate ==
    /\ page_pc = "rtdf"
    /\ chunk_files' = ChunkFiles("X", rtdf, page_size)
    /\ page_pc' = "written"
    /\ UNCHANGED <<rtdf, page_size>>
    /\ UNCHANGED <<parse_vars, input_vars, run_vars>>

----------------------------------------------------------------------------
(* The inputs of make_report *)

Subjects == {"01", "02"}

\* the report types the image-change options name
ConfigTypes == {"A", "dseg"}

\* a figure is named by the entities of its file name
Figures ==
    [subject : Subjects,
     desc : {None, Some("A")},
     suffix : {"dseg", "T1w"},
     space : {None, Some("MNI")}]

\* layout.parse_file_entities and line 43: the entities are the keys the
\* file name carries, the file name is the whole of the figure's name
parse_file_entities(fig) == fig
FileName(fig) == fig

RECURSIVE SeqsUpTo(_, _)
SeqsUpTo(S, n) ==
    IF n = 0 THEN {<<>>}
    ELSE SeqsUpTo(S, n - 1)
            \cup {Append(s, x) : s \in {t \in SeqsUpTo(S, n - 1) : Len(t) = n - 1}, x \in S}

\* the figures of a report the pipeline wrote for subject s
PipelineFigs(s) ==
    <<[subject |-> s, desc |-> Some("A"), suffix |-> "T1w", space |-> None],
      [subject |-> s, desc |-> None, suffix |-> "dseg", space |-> None]>>

EntryKinds == {"absent", "symlink", "copy"}

\* line 150
default_reports_per_page == 50

\* report types in the order groupby visits them (Python's str order)
SortedTypes == <<"A", "MNI", "dseg">>

----------------------------------------------------------------------------
(* parse_report, lines 38-75, on the figures of one report: the rows and   *)
(* their report_type                                                       *)

HasColumn(rows, key) ==
    \E n \in 1..Len(rows) :
        CASE key = "desc" -> rows[n].desc # None
          [] key = "space" -> rows[n].space # None
          [] OTHER -> TRUE

\* lines 69-74 for one row
ReportType(row, space_column) ==
    IF row.desc # None THEN row.desc
    ELSE IF row.suffix = "dseg" THEN Some(row.suffix)
    ELSE IF space_column /\ row.space # None THEN row.space
    ELSE None

\* ok = FALSE: report_elements.desc raises AttributeError (line 69) when no
\* row has the desc entity, and so when there is no row
parse_report(figs) ==
    LET rows == [n \in 1..Len(figs) |->
                    [subject |-> parse_file_entities(figs[n]).subject,
                     desc |-> parse_file_entities(figs[n]).desc,
                     suffix |-> parse_file_entities(figs[n]).suffix,
                     space |-> parse_file_entities(figs[n]).space,
                     filename |-> FileName(figs[n])]]
    IN IF ~HasColumn(rows, "desc") THEN [ok |-> FALSE, rows |-> <<>>]
       ELSE [ok |-> TRUE,
             rows |-> [n \in 1..Len(rows) |->
                        [subject |-> rows[n].subject,
                         desc |-> rows[n].desc,
                         suffix |-> rows[n].suffix,
                         space |-> rows[n].space,
                         filename |-> rows[n].filename,
                         report_type |-> ReportType(rows[n], HasColumn(rows, "space"))]]]

----------------------------------------------------------------------------
(* make_report, lines 236-368 *)

\* lines 243-254, in the order of the three checks
FlipOverlapOnly(flip, background, foreground) ==
    (flip \cap foreground) # {} \/ (flip \cap background) # {}
Overlap(flip, background, foreground) ==
    \/ (flip \cap foreground) # {}
    \/ (flip \cap background) # {}
    \/ (foreground \cap background) # {}

\* line 317: the path the template resolves to, for subject s, exists
AnyTemplateResolves(s) == TRUE
TemplateResolves(s) == s \in fig_dirs

\* line 320: is_symlink() or exists(); a symlink counts even when it dangles
NeverExists(s) == FALSE
SubjFigDirExists(s) == entry[s] # "absent"

\* line 288
IsSubjectReport(rp) == ~rp.under_figures

\* line 341: group/sub-<s>/figures/<filename> exists: in a copy, or through
\* a symlink to an original figures directory that exists
ImageExists(s) ==
    \/ entry[s] = "copy"
    \/ entry[s] = "symlink" /\ s \in fig_dirs

\* line 343: Path.is_symlink looks at the last path component only, and
\* the files of a figures directory are regular files
ImageIsSymlink(s) == FALSE

\* lines 346-351
ChangeOf(report_type) ==
    IF report_type \in flip_images THEN "flip"
    ELSE IF report_type \in drop_foreground THEN "drop_foreground"
    ELSE "drop_background"

\* lines 338-351 from row n on: the changes applied and the exception, if any.
\* A change written through a symlinked figures directory lands in the
\* original tree.
RECURSIVE ApplyChanges(_, _, _, _)
ApplyChanges(report_type, rows, n, log) ==
    IF n > Len(rows) THEN [ok |-> TRUE, err |-> "", log |-> log]
    ELSE IF ~ImageExists(rows[n].subject)
        THEN [ok |-> FALSE, err |-> "FileNotFoundError: image", log |-> log]
    ELSE IF ImageIsSymlink(rows[n].subject)
        THEN [ok |-> FALSE, err |-> "ValueError: image is a symlink", log |-> log]
    ELSE ApplyChanges(report_type, rows, n + 1,
            Append(log, [subject |-> rows[n].subject,
                         filename |-> rows[n].filename,
                         change |-> ChangeOf(report_type),
                         storage |-> IF entry[rows[n].subject] = "symlink"
                                     THEN "original" ELSE "group"]))

RECURSIVE Concat(_)
Concat(tables) == IF tables = <<>> THEN <<>> ELSE Head(tables) \o Concat(Tail(tables))

\* line 328: concat and reset_index; pos is the row's index in the corpus
WithPos(rows) ==
    [n \in 1..Len(rows) |->
        [pos |-> n - 1, subject |-> rows[n].subject, filename |-> rows[n].filename,
         report_type |-> rows[n].report_type]]

\* line 331: groupby drops the rows whose key is null and sorts the keys
GroupKeys(rows) ==
    SelectSeq(SortedTypes,
              LAMBDA t : \E n \in 1..Len(rows) : rows[n].report_type = Some(t))

Group(rows, t) == SelectSeq(rows, LAMBDA r : r.report_type = Some(t))

\* the state of the run before line 236
RunInit ==
    /\ pc = "validate"
    /\ err = ""
    /\ image_changes = FALSE
    /\ entry = entry0
    /\ group_dir = (\E s \in Subjects : entry0[s] # "absent")
    /\ dataset_description = "absent"
    /\ subj_dirs = {s \in Subjects : entry0[s] # "absent"}
    /\ created = {}
    /\ fs_ops = <<>>
    /\ i = 0
    /\ reports = <<>>
    /\ corpus = <<>>
    /\ todo = <<>>
    /\ transforms = <<>>
    /\ written = {}

RunIdle ==
    /\ flip_images = {} /\ drop_background = {} /\ drop_foreground = {}
    /\ path_to_figures = None
    /\ reports_per_page = None
    /\ report_paths = <<>>
    /\ fig_dirs = {}
    /\ entry0 = [s \in Subjects |-> "absent"]
    /\ RunInit

\* lines 236-254
Validate ==
    /\ pc = "validate"
    /\ IF flip_images = {} /\ drop_background = {} /\ drop_foreground = {}
       THEN image_changes' = FALSE /\ pc' = "setup" /\ err' = err
       ELSE /\ image_changes' = TRUE
            /\ IF Overlap(flip_images, drop_background, drop_foreground)
               THEN pc' = "error" /\ err' = "ValueError: modified in a single way"
               ELSE pc' = "setup" /\ err' = err
    /\ UNCHANGED <<entry, group_dir, dataset_description, subj_dirs, created, fs_ops,
                   i, reports, corpus, todo, transforms, written>>
    /\ UNCHANGED <<parse_vars, page_vars, input_vars>>

\* lines 258-286
Setup ==
    /\ pc = "setup"
    /\ group_dir' = TRUE
    /\ dataset_description' = "written"
    /\ fs_ops' = fs_ops \o <<[op |-> "mkdir", path |-> <<"group">>],
                             [op |-> "write", path |-> <<"group", "dataset_description.json">>]>>
    /\ i' = 1
    /\ reports' = <<>>
    /\ pc' = "loop"
    /\ UNCHANGED <<err, image_changes, entry, subj_dirs, created, corpus, todo,
                   transforms, written>>
    /\ UNCHANGED <<parse_vars, page_vars, input_vars>>

\* lines 287-326, one report path
ProcessReport ==
    /\ pc = "loop"
    /\ i <= Len(report_paths)
    /\ LET rp == report_paths[i]
           s == rp.subject
           table == parse_report(rp.figs)
           mkdir == [op |-> "mkdir", path |-> <<"group", s>>]
           link(op) == [op |-> op, path |-> <<"group", s, "figures">>]
       IN IF ~IsSubjectReport(rp)
          THEN /\ i' = i + 1
               /\ UNCHANGED <<pc, err, reports, subj_dirs, fs_ops, entry, created>>
          ELSE IF ~table.ok
          THEN /\ pc' = "error" /\ err' = "AttributeError: desc"
               /\ UNCHANGED <<i, reports, subj_dirs, fs_ops, entry, created>>
          ELSE IF path_to_figures # None /\ ~TemplateResolves(s)
          THEN /\ pc' = "error" /\ err' = "ValueError: path_to_figures is not correct"
               /\ reports' = Append(reports, table.rows)
               /\ subj_dirs' = subj_dirs \cup {s}
               /\ fs_ops' = Append(fs_ops, mkdir)
               /\ UNCHANGED <<i, entry, created>>
          ELSE IF SubjFigDirExists(s)
          THEN /\ pc' = "error" /\ err' = "ValueError: exists and would be overwritten"
               /\ reports' = Append(reports, table.rows)
               /\ subj_dirs' = subj_dirs \cup {s}
               /\ fs_ops' = Append(fs_ops, mkdir)
               /\ UNCHANGED <<i, entry, created>>
          ELSE IF image_changes /\ s \notin fig_dirs
          THEN \* copytree lists the source first and raises before it creates
               /\ pc' = "error" /\ err' = "FileNotFoundError: copytree"
               /\ reports' = Append(reports, table.rows)
               /\ subj_dirs' = subj_dirs \cup {s}
               /\ fs_ops' = Append(fs_ops, mkdir)
               /\ UNCHANGED <<i, entry, created>>
          ELSE /\ reports' = Append(reports, table.rows)
               /\ subj_dirs' = subj_dirs \cup {s}
               /\ fs_ops' = fs_ops \o <<mkdir, link(IF image_changes THEN "copytree" ELSE "symlink")>>
               /\ entry' = [entry EXCEPT ![s] = IF image_changes THEN "copy" ELSE "symlink"]
               /\ created' = created \cup {s}
               /\ i' = i + 1
               /\ UNCHANGED <<pc, err>>
    /\ UNCHANGED <<image_changes, group_dir, dataset_description, corpus, todo,
                   transforms, written>>
    /\ UNCHANGED <<parse_vars, page_vars, input_vars>>

\* line 328 and the grouping of line 331
ConcatReports ==
    /\ pc = "loop"
    /\ i > Len(report_paths)
    /\ IF reports = <<>>
       THEN /\ pc' = "error" /\ err' = "ValueError: No objects to concatenate"
            /\ UNCHANGED <<corpus, todo>>
       ELSE /\ corpus' = WithPos(Concat(reports))
            /\ todo' = GroupKeys(WithPos(Concat(reports)))
            /\ pc' = "types"
            /\ err' = err
    /\ UNCHANGED <<image_changes, entry, group_dir, dataset_description, subj_dirs,
                   created, fs_ops, i, reports, transforms, written>>
    /\ UNCHANGED <<parse_vars, page_vars, input_vars>>

\* lines 331-368, one report type
ProcessType ==
    /\ pc = "types"
    /\ todo # <<>>
    /\ LET report_type == Head(todo)
           rows == Group(corpus, report_type)
           changed == IF image_changes
                         /\ (report_type \in flip_images
                             \/ report_type \in drop_foreground
                             \/ report_type \in drop_background)
                      THEN ApplyChanges(report_type, rows, 1, transforms)
                      ELSE [ok |-> TRUE, err |-> "", log |-> transforms]
       IN /\ transforms' = changed.log
          /\ IF changed.ok
             THEN /\ written' = written \cup ChunkFiles(report_type, rows, reports_per_page)
                  /\ todo' = Tail(todo)
                  /\ UNCHANGED <<pc, err>>
             ELSE /\ pc' = "error" /\ err' = changed.err
                  /\ UNCHANGED <<written, todo>>
    /\ UNCHANGED <<image_changes, entry, group_dir, dataset_description, subj_dirs,
                   created, fs_ops, i, reports, corpus>>
    /\ UNCHANGED <<parse_vars, page_vars, input_vars>>

\* the loop of line 331 is over
Finish ==
    /\ pc = "types"
    /\ todo = <<>>
    /\ pc' = "done"
    /\ UNCHANGED <<err, image_changes, entry, group_dir, dataset_description, subj_dirs,
                   created, fs_ops, i, reports, corpus, todo, transforms, written>>
    /\ UNCHANGED <<parse_vars, page_vars, input_vars>>

----------------------------------------------------------------------------
(* Specifications *)

\* line 285: what the glob can find, reports under a figures directory too
ReportPaths ==
    SeqsUpTo({[subject |-> s, under_figures |-> u, figs |-> PipelineFigs(s)] :
                s \in Subjects, u \in BOOLEAN}, MaxReports)

\* make_report on any configuration and any state of the trees, every
\* report embedding the figures the pipeline writes
Init ==
    /\ ParseInit
    /\ PageIdle
    /\ flip_images \in SUBSET ConfigTypes
    /\ drop_background \in SUBSET ConfigTypes
    /\ drop_foreground \in SUBSET ConfigTypes
    /\ path_to_figures \in {None, Some("../../sub-{subject}/figures")}
    /\ reports_per_page = Some(default_reports_per_page)
    /\ report_paths \in ReportPaths
    /\ \E missing \in SUBSET Subjects : fig_dirs = Subjects \ missing
    /\ entry0 \in [Subjects -> EntryKinds]
    /\ RunInit

Next == Validate \/ Setup \/ ProcessReport \/ ConcatReports \/ ProcessType \/ Finish

Spec == Init /\ [][Next]_vars

\* make_report on one report embedding any figures, the figures
\* directories inferred and present
CorpusInit ==
    /\ ParseInit
    /\ PageIdle
    /\ flip_images \in SUBSET ConfigTypes
    /\ drop_background \in SUBSET ConfigTypes
    /\ drop_foreground \in SUBSET ConfigTypes
    /\ path_to_figures = None
    /\ reports_per_page \in {None, Some(1)}
    /\ report_paths \in {<<[subject |-> s, under_figures |-> FALSE, figs |-> figs]>> :
                            s \in Subjects, figs \in SeqsUpTo(Figures, MaxFigs)}
    /\ fig_dirs = Subjects
    /\ entry0 \in [Subjects -> EntryKinds]
    /\ RunInit

SpecCorpus == CorpusInit /\ [][Next]_vars

\* parse_report on any document, called again and again
InitParse == ParseInit /\ PageIdle /\ RunIdle

ParseNext == ParseBegin \/ ParseFigure \/ ParseReturn

SpecParse == InitParse /\ [][ParseNext]_vars

\* the pagination of any group under any page size
InitPage == ParseInit /\ PageInit /\ RunIdle

PageNext == Paginate

SpecPage == InitPage /\ [][PageNext]_vars

----------------------------------------------------------------------------
(* Properties *)

\* report path j is a subject report (line 288 lets it in)
Processed(j) == j \in 1..Len(report_paths) /\ IsSubjectReport(report_paths[j])

\* some report type is named by two of the three image-change options
SharedName ==
    \E t \in ConfigTypes :
        Cardinality({o \in {"flip", "background", "foreground"} :
            t \in (CASE o = "flip" -> flip_images
                     [] o = "background" -> drop_background
                     [] OTHER -> drop_foreground)}) >= 2

\* nothing of the output tree has been created, written or changed by the run
OutputUntouched ==
    /\ fs_ops = <<>>
    /\ group_dir = (\E s \in Subjects : entry0[s] # "absent")
    /\ dataset_description = "absent"
    /\ subj_dirs = {s \in Subjects : entry0[s] # "absent"}
    /\ entry = entry0
    /\ created = {}
    /\ transforms = <<>>
    /\ written = {}

\* C1: when two of flip_images, drop_foreground and drop_background share a
\* report-type name, the run ends in the configuration error of lines 243-254
\* and no filesystem action has happened: no group directory, no
\* dataset_description.json, no figures entry linked or copied.
C1_OverlapAbortsBeforeAnyFileAction ==
    (SharedName /\ pc # "validate") =>
        /\ pc = "error"
        /\ err = "ValueError: modified in a single way"
        /\ OutputUntouched

\* C1 witness: flip and drop_background both name a type and the run has ended
C1_Witness ==
    /\ pc = "error"
    /\ flip_images \cap drop_background # {}
    /\ drop_foreground = {}

\* the subjects whose figures entry exists when the run starts and that the
\* run processes
AlreadyLinked == {s \in Subjects : entry0[s] # "absent"
                                   /\ \E j \in 1..Len(report_paths) :
                                        Processed(j) /\ report_paths[j].subject = s}

FirstAt(s) ==
    CHOOSE j \in 1..Len(report_paths) :
        /\ Processed(j) /\ report_paths[j].subject = s
        /\ \A k \in 1..(j - 1) : ~(Processed(k) /\ report_paths[k].subject = s)

\* C2 as stated: when the figures entry of a processed subject S exists at the
\* start, the run aborts and no other subject's entry is created or modified,
\* whatever S's position in the processing order.
C2_ExistingEntryLeavesOthersUntouched ==
    \A s \in AlreadyLinked :
        /\ pc \notin {"types", "done"}
        /\ \A t \in Subjects \ {s} : entry[t] = entry0[t] /\ t \notin created

\* C2 amended: the run never gets past the first report of S; S's entry and
\* every entry that existed at the start stay as they were; the only entries
\* the run creates are those of subjects processed before S.
C2_ExistingEntryStopsRunAtSubject ==
    \A s \in AlreadyLinked :
        /\ pc \notin {"types", "done"}
        /\ i <= FirstAt(s)
        /\ entry[s] = entry0[s] /\ s \notin created
        /\ \A t \in Subjects :
            (t \in created \/ entry[t] # entry0[t]) =>
                /\ entry0[t] = "absent"
                /\ \E k \in 1..(FirstAt(s) - 1) :
                    Processed(k) /\ report_paths[k].subject = t

\* C2 witness: the run stopped at a subject whose entry existed, after it had
\* created the entry of a subject processed before
C2_Witness ==
    /\ pc = "error"
    /\ err = "ValueError: exists and would be overwritten"
    /\ AlreadyLinked # {}
    /\ created # {}
    /\ fig_dirs = Subjects

\* C3: after the three classification rules every row of the corpus has a
\* report_type or the run has aborted, and in a run that completes every row
\* is in exactly one consolidated (report_type, chunk) file.
C3_EveryRowClassifiedOrAbort ==
    /\ pc \in {"types", "done"} =>
        \A n \in 1..Len(corpus) : corpus[n].report_type # None
    /\ pc = "done" =>
        \A n \in 1..Len(corpus) :
            Cardinality({f \in written :
                \E k \in 1..Len(f.rows) : f.rows[k].row.pos = corpus[n].pos}) = 1

\* C4: every figures entry the run creates is a copy when an image change is
\* asked for and a symlink otherwise, and every image change is applied to
\* a file stored in the group tree, never to one of the original output.
C4_ChangesOnlyTouchCopies ==
    /\ \A s \in created :
        entry[s] = IF image_changes THEN "copy" ELSE "symlink"
    /\ \A n \in 1..Len(transforms) :
        /\ transforms[n].storage = "group"
        /\ entry[transforms[n].subject] = "copy"

\* C6: without a figures-path template, a subject whose inferred figures
\* directory does not exist aborts the run, and no figures entry is created
\* for it.
C6_MissingInferredDirAborts ==
    path_to_figures = None =>
        /\ \A j \in 1..(i - 1) : Processed(j) => report_paths[j].subject \in fig_dirs
        /\ \A s \in created : s \in fig_dirs

\* C7 as stated: the error for a template that resolves to a missing path is
\* raised before the output tree is touched.
C7_BadTemplateAbortsBeforeOutputTouched ==
    err = "ValueError: path_to_figures is not correct" => OutputUntouched

\* C7 amended: with a template, the run never gets past a subject whose
\* resolved path is missing and creates no figures entry for it; when the
\* error is raised the group directory, dataset_description.json and that
\* subject's group directory have been created (its mkdir is the run's last
\* filesystem action) and its figures entry is as it was at the start.
C7_BadTemplateAbortsBeforeSubjectEntry ==
    /\ path_to_figures # None =>
        /\ \A j \in 1..(i - 1) : Processed(j) => report_paths[j].subject \in fig_dirs
        /\ \A s \in created : s \in fig_dirs
    /\ err = "ValueError: path_to_figures is not correct" =>
        /\ pc = "error"
        /\ path_to_figures # None
        /\ Processed(i)
        /\ report_paths[i].subject \notin fig_dirs
        /\ group_dir
        /\ dataset_description = "written"
        /\ report_paths[i].subject \in subj_dirs
        /\ fs_ops[Len(fs_ops)] = [op |-> "mkdir", path |-> <<"group", report_paths[i].subject>>]
        /\ entry[report_paths[i].subject] = entry0[report_paths[i].subject]
        /\ report_paths[i].subject \notin created

\* C7 witness: the template error is raised for the second subject, after the
\* first subject's figures entry was created
C7_Witness ==
    /\ err = "ValueError: path_to_figures is not correct"
    /\ created # {}

\* C10: no file group/sub-<subject>/figures/<filename> has an image change
\* applied more than once.
C10_AtMostOneChangePerFile ==
    \A a, b \in 1..Len(transforms) :
        (transforms[a].subject = transforms[b].subject
            /\ transforms[a].filename = transforms[b].filename) => a = b

\* the h3 run-title headings under the parent of the n-th figure node
RunTitlesAt(d, n) == findAll(d, Parent(file_divs(d)[n]), "h3", "run-title")

\* the run title claimed for the n-th figure node: the heading of the last
\* figure node up to n whose parent holds exactly one
ExpectedRunTitle(d, n) ==
    LET U == {m \in 1..n : Len(RunTitlesAt(d, m)) = 1}
    IN IF U = {} THEN NaN
       ELSE TextOf(RunTitlesAt(d, CHOOSE m \in U : \A k \in U : k <= m)[1])

\* C8: every figure node yields a row, in document order; a row's run_title
\* is its parent's heading when there is exactly one and otherwise the
\* default remembered in the same document (NaN when none was seen); the
\* default is the last such heading and starts at NaN in every parse.
C8_RunTitleInheritance ==
    parse_pc = "loop" =>
        /\ Len(report_elements) = fd - 1
        /\ \A n \in 1..Len(report_elements) :
            /\ report_elements[n].path = file_divs(doc)[n]
            /\ report_elements[n].run_title = ExpectedRunTitle(doc, n)
        /\ prev_run_title = ExpectedRunTitle(doc, fd - 1)

\* C8 witness: a row whose parent holds two headings took the title an
\* earlier figure node remembered
C8_Witness ==
    /\ parse_pc = "loop"
    /\ \E n \in 1..Len(report_elements) :
        /\ Len(RunTitlesAt(doc, n)) > 1
        /\ report_elements[n].run_title # NaN

\* the caption claimed by the sibling scan: the nearest preceding sibling
\* carrying the elem-caption class
NearestCaptionSibling(d, p) ==
    LET sibs == previous_siblings(p)
        C == {n \in 1..Len(sibs) : HasToken(ClassTokens(NodeAt(d, sibs[n])), "elem-caption")}
    IN IF C = {} THEN NaN ELSE TextOf(sibs[CHOOSE n \in C : \A k \in C : n <= k])

\* C9: when the parent of a figure node holds zero or several elem-caption
\* nodes, the row's elem_caption is the text of the nearest preceding
\* sibling carrying the elem-caption class, and NaN only when there is none.
C9_FallbackCaptionIsNearestSibling ==
    \A n \in 1..Len(report_elements) :
        Len(findAll(doc, Parent(report_elements[n].path), "p", "elem-caption")) # 1 =>
            report_elements[n].elem_caption
                = NearestCaptionSibling(doc, report_elements[n].path)

PageOf(k) == IF page_size = None THEN 0 ELSE k \div page_size[1]
LocalOf(k) == IF page_size = None THEN k ELSE k % page_size[1]

FileOf(c) == CHOOSE f \in chunk_files : f.chunk = c

RECURSIVE ChunksInOrder(_, _)
ChunksInOrder(c, last) ==
    IF c > last THEN <<>>
    ELSE [k \in 1..Len(FileOf(c).rows) |-> FileOf(c).rows[k].row]
            \o ChunksInOrder(c + 1, last)

\* C5: the row with group index k is in chunk k div p with chunk-local index
\* k mod p (chunk 0, index k, when the page size is unset); there is one file
\* per chunk and the chunks in order give back the group in corpus order; 120
\* rows with page size 50 give the chunks 000, 001 and 002, the last with 20
\* rows indexed 0..19.
C5_ChunkAndLocalIndex ==
    page_pc = "written" =>
        /\ \A k \in 0..(Len(rtdf) - 1) :
            \E f \in chunk_files :
                /\ f.chunk = PageOf(k)
                /\ Len(f.rows) > LocalOf(k)
                /\ f.rows[LocalOf(k) + 1] = [idx |-> LocalOf(k), row |-> rtdf[k + 1]]
        /\ {f.chunk : f \in chunk_files} = 0..PageOf(Len(rtdf) - 1)
        /\ Cardinality(chunk_files) = PageOf(Len(rtdf) - 1) + 1
        /\ ChunksInOrder(0, PageOf(Len(rtdf) - 1)) = rtdf
        /\ (Len(rtdf) = 120 /\ page_size = Some(50)) =>
            /\ {f.name : f \in chunk_files} = {<<0, 0, 0>>, <<0, 0, 1>>, <<0, 0, 2>>}
            /\ \E f \in chunk_files :
                /\ f.name = <<0, 0, 2>>
                /\ Len(f.rows) = 20
                /\ \A k \in 1..20 : f.rows[k].idx = k - 1

\* C5 witness: the group of 120 rows paginated by 50
C5_Witness ==
    /\ page_pc = "written"
    /\ Len(rtdf) = 120
    /\ page_size = Some(50)

====
